---- MODULE Spec2Model ----
(***************************************************************************)
(* Model of the batch-job status monitor (mainBatchStatus and the          *)
(* batchJobMetricsUI bubbletea model) of the batch status command.         *)
(*                                                                         *)
(* Three activities run concurrently:                                      *)
(*   - the top-level flow mainBatchStatus (variable pc),                   *)
(*   - the goroutine that runs client.Metrics and its delivery callback    *)
(*     (variable sub),                                                     *)
(*   - in interactive mode the display loop ui.Run, which hands the        *)
(*     messages of its queue one at a time to batchJobMetricsUI.Update     *)
(*     and redraws with batchJobMetricsUI.View (variable uiState).         *)
(* They share the cancellation context ctxt (variable cancelled).          *)
(*                                                                         *)
(* Collaborators outside the file are modelled by their contract:          *)
(*   - client.Metrics(ctxt, ...) invokes the callback once per tick, one   *)
(*     invocation at a time, and delivers nothing once ctxt is cancelled;  *)
(*   - tea.Program keeps an ordered message queue; a tea.Cmd returned by   *)
(*     Update (tea.Quit, the spinner's tick) runs asynchronously and its   *)
(*     message joins the queue later, behind whatever arrived meanwhile;   *)
(*   - fatalIf with a non-nil error ends the process (no deferred call     *)
(*     runs); returning from mainBatchStatus ends the process too.         *)
(***************************************************************************)
EXTENDS Integers, Sequences, FiniteSets, TLC

VARIABLES
    globalJSON,   \* the global output-mode switch (TRUE: structured mode)
    pc,           \* position of mainBatchStatus
    descr,        \* what client.DescribeBatchJob returned
    notice,       \* console.Infoln("Unable to find an active job, ...") was printed
    fatalMsg,     \* message of the fatalIf that ended the process ("" if none)
    cancelled,    \* ctxt.Done() is closed
    cancels,      \* who has called cancel() / cancelled the parent so far
    sub,          \* the Metrics goroutine: "idle", "running", "done"
    ticks,        \* number of ticks the feed has handed to the callback
    lastTick,     \* the tick of the latest invocation of the callback
    printed,      \* the records printMsg has emitted, in order
    msgs,         \* the display's message queue
    uiState,      \* the display loop: "new", "running", "exited"
    current,      \* batchJobMetricsUI.current
    quitting,     \* batchJobMetricsUI.quitting
    spinner,      \* batchJobMetricsUI.spinner (its frame)
    tickCmd,      \* a spinner tick command is pending
    quitCmd,      \* a tea.Quit command is pending
    keys,         \* number of inputs the terminal has handed to the loop
    events,       \* number of events from outside so far: ticks, keys, animation ticks
    feedErr,      \* what client.Metrics returned ("" while it has not returned)
    replicate,    \* the numbers of the replication snapshot View is applied to
    table         \* the lines View has collected for the table

vars == <<globalJSON, pc, descr, notice, fatalMsg, cancelled, cancels, sub, ticks,
          lastTick, printed, msgs, uiState, current, quitting, spinner, tickCmd, quitCmd,
          keys, events, feedErr, replicate, table>>

---------------------------------------------------------------------------
(* Bounds of the model. *)

\* number of events from outside in a run: ticks of the feed, keys of the
\* user and ticks of the animation timer, in any mix
MaxEvents == 4

---------------------------------------------------------------------------
(* Data. *)

\* ctx.Args().Get(1)
jobID == "job"

\* spinner.Points has four frames
SpinnerFrames == 4

\* the zero value of madmin.JobMetric
ZeroJob == [Complete |-> FALSE, Failed |-> FALSE, JobType |-> "", Objects |-> 0]

\* a madmin.JobMetric as far as the monitor reads it
Job(type, objects, complete, failed) ==
    [Complete |-> complete, Failed |-> failed, JobType |-> type, Objects |-> objects]

\* the snapshots the server reports for the job: running, then complete or failed
JobMetric ==
    { Job("replicate", 1, FALSE, FALSE),
      Job("replicate", 2, TRUE, FALSE),
      Job("keyrotate", 1, FALSE, FALSE),
      Job("keyrotate", 1, FALSE, TRUE) }

\* metrics.Aggregated.BatchJobs.Jobs: a map keyed by job id
NoJobs == [id \in {} |-> ZeroJob]
JobsOf(j) == [id \in {jobID} |-> j]

\* madmin.RealtimeMetrics as far as the monitor reads it:
\* HasBatchJobs is metrics.Aggregated.BatchJobs != nil
NoBatchJobs == [HasBatchJobs |-> FALSE, Jobs |-> NoJobs]
RealtimeMetrics ==
    {NoBatchJobs} \cup {[HasBatchJobs |-> TRUE, Jobs |-> NoJobs]}
    \cup {[HasBatchJobs |-> TRUE, Jobs |-> JobsOf(j)] : j \in JobMetric}

\* the tick carries a snapshot of the target job
Present(metrics) == metrics.HasBatchJobs /\ jobID \in DOMAIN metrics.Jobs
\* the tick's snapshot has complete or failed set
Terminal(metrics) ==
    Present(metrics) /\ (metrics.Jobs[jobID].Complete \/ metrics.Jobs[jobID].Failed)

\* messages of the display loop
KeyMsg(k) == [type |-> "key", key |-> k, metrics |-> NoBatchJobs]
MetricsMsg(metrics) == [type |-> "metrics", key |-> "", metrics |-> metrics]
TickMsg == [type |-> "tick", key |-> "", metrics |-> NoBatchJobs]
QuitMsg == [type |-> "quit", key |-> "", metrics |-> NoBatchJobs]
OtherMsg == [type |-> "other", key |-> "", metrics |-> NoBatchJobs]

\* results of client.DescribeBatchJob: no error, an ErrorResponse with a
\* code, or an error that is no ErrorResponse
DescribeResults ==
    { [err |-> FALSE, code |-> ""],
      [err |-> TRUE, code |-> "XMinioAdminNoSuchJob"],
      [err |-> TRUE, code |-> "XMinioAdminInternalError"],
      [err |-> TRUE, code |-> ""] }

\* before the call
NotDescribed == [err |-> FALSE, code |-> "-"]

\* mutant: a second call of cancel() re-arms the signal
CancelToggles(done) == ~done

\* ctxt.Done() after a call of cancel(): closed, whatever it was before
Cancel(done) == TRUE

Alive == pc \notin {"returned", "fatal"}

---------------------------------------------------------------------------
(* Integers of 64 bits and float64: the arithmetic of View. A number is the
   sequence of its digits in base Limb, lowest digit first, without leading
   zero digits. *)

\* the base of the digits: 2^15, so that a product of two digits plus a
\* carry stays below 2^31
Limb == 32768
LimbBits == 15

Zero == << >>
One == <<1>>

\* the number n, 0 <= n < 2^31
FromInt(n) ==
    IF n = 0 THEN Zero
    ELSE IF n < Limb THEN <<n>>
    ELSE IF n < Limb * Limb THEN <<n % Limb, n \div Limb>>
    ELSE <<n % Limb, (n \div Limb) % Limb, n \div (Limb * Limb)>>

RECURSIVE Norm(_)
Norm(a) ==
    IF a = << >> THEN a
    ELSE IF a[Len(a)] = 0 THEN Norm(SubSeq(a, 1, Len(a) - 1))
    ELSE a

LimbAt(a, i) == IF i <= Len(a) THEN a[i] ELSE 0

RECURSIVE AddFrom(_, _, _, _)
AddFrom(a, b, i, c) ==
    IF i > Len(a) /\ i > Len(b)
    THEN IF c = 0 THEN << >> ELSE <<c>>
    ELSE <<(LimbAt(a, i) + LimbAt(b, i) + c) % Limb>>
         \o AddFrom(a, b, i + 1, (LimbAt(a, i) + LimbAt(b, i) + c) \div Limb)

Add(a, b) == AddFrom(a, b, 1, 0)

RECURSIVE LessFrom(_, _, _)
LessFrom(a, b, i) ==
    IF i = 0 THEN FALSE
    ELSE IF a[i] # b[i] THEN a[i] < b[i]
    ELSE LessFrom(a, b, i - 1)

\* a < b
Less(a, b) ==
    IF Len(a) # Len(b) THEN Len(a) < Len(b) ELSE LessFrom(a, b, Len(a))

RECURSIVE SubFrom(_, _, _, _)
SubFrom(a, b, i, c) ==
    IF i > Len(a) THEN << >>
    ELSE IF a[i] - LimbAt(b, i) - c < 0
         THEN <<a[i] - LimbAt(b, i) - c + Limb>> \o SubFrom(a, b, i + 1, 1)
         ELSE <<a[i] - LimbAt(b, i) - c>> \o SubFrom(a, b, i + 1, 0)

\* a - b, for a >= b
Sub(a, b) == Norm(SubFrom(a, b, 1, 0))

RECURSIVE MulFrom(_, _, _, _)
MulFrom(a, k, i, c) ==
    IF i > Len(a)
    THEN IF c = 0 THEN << >> ELSE <<c>>
    ELSE <<(a[i] * k + c) % Limb>> \o MulFrom(a, k, i + 1, (a[i] * k + c) \div Limb)

\* a * k, for a digit k
MulSmall(a, k) == IF k = 0 THEN Zero ELSE MulFrom(a, k, 1, 0)

\* a * Limb^n
ShiftLimbs(a, n) == IF a = << >> THEN a ELSE [i \in 1 .. n |-> 0] \o a

RECURSIVE MulAt(_, _, _)
MulAt(a, b, i) ==
    IF i > Len(b) THEN Zero
    ELSE Add(ShiftLimbs(MulSmall(a, b[i]), i - 1), MulAt(a, b, i + 1))

Mul(a, b) == MulAt(a, b, 1)

RECURSIVE SmallPow2(_)
SmallPow2(k) == IF k = 0 THEN 1 ELSE 2 * SmallPow2(k - 1)

\* 2^k
Pow2(k) == ShiftLimbs(<<SmallPow2(k % LimbBits)>>, k \div LimbBits)

\* a * 2^k
Shl(a, k) == ShiftLimbs(MulSmall(a, SmallPow2(k % LimbBits)), k \div LimbBits)

RECURSIVE SmallBitLen(_)
SmallBitLen(n) == IF n = 0 THEN 0 ELSE 1 + SmallBitLen(n \div 2)

\* the number of bits of a
BitLen(a) ==
    IF a = << >> THEN 0 ELSE (Len(a) - 1) * LimbBits + SmallBitLen(a[Len(a)])

\* bit i of a, the lowest being bit 0
Bit(a, i) == (LimbAt(a, i \div LimbBits + 1) \div SmallPow2(i % LimbBits)) % 2

RECURSIVE Digit(_, _, _, _)
\* the digit d with b * d <= a < b * (d + 1), known to lie in lo .. hi - 1
Digit(a, b, lo, hi) ==
    IF hi - lo <= 1 THEN lo
    ELSE IF Less(a, MulSmall(b, (lo + hi) \div 2))
         THEN Digit(a, b, lo, (lo + hi) \div 2)
         ELSE Digit(a, b, (lo + hi) \div 2, hi)

RECURSIVE DivLimbs(_, _, _, _, _)
\* the long division of a by b, digit i of a being the next to bring down,
\* with the quotient q and the remainder r of the digits above it
DivLimbs(a, b, i, q, r) ==
    IF i = 0 \/ Len(q) < 0 \/ Len(r) < 0 THEN [q |-> Norm(q), r |-> r]
    ELSE LET r2 == Norm(<<a[i]>> \o r)
             d == Digit(r2, b, 0, Limb)
         IN  DivLimbs(a, b, i - 1, <<d>> \o q, Sub(r2, MulSmall(b, d)))

\* quotient and remainder of a by b, b > 0
DivMod(a, b) == DivLimbs(a, b, Len(a), Zero, Zero)

\* a \div 2^k
Shr(a, k) == DivMod(a, Pow2(k)).q

\* a rounded to a multiple of b, b > 0, to the nearest and on a tie to the
\* even one; the result is the multiple's factor
RoundDiv(a, b) ==
    LET d == DivMod(a, b)
        twice == Add(d.r, d.r)
    IN  IF Less(b, twice) \/ (twice = b /\ Bit(d.q, 0) = 1)
        THEN Add(d.q, One)
        ELSE d.q

\* time.Second: a Duration counts nanoseconds
Second == FromInt(1000000000)

\* the largest int64
MaxInt64 == Sub(Pow2(63), One)

\* an int64 as sign and magnitude
Int64(neg, mag) == [neg |-> neg /\ mag # Zero, mag |-> mag]

\* the int64 that holds the low 64 bits of the number a, in two's complement
Wrap64(a) ==
    LET w == DivMod(a, Pow2(64)).r
    IN  IF Less(w, Pow2(63)) THEN Int64(FALSE, w) ELSE Int64(TRUE, Sub(Pow2(64), w))

\* the product of two non-negative int64 as the machine computes it
MulInt64(a, b) == Wrap64(Mul(a, b))

\* a time.Time of the wire format: seconds and nanoseconds
Time(sec, nsec) == [sec |-> sec, nsec |-> nsec]

\* the nanoseconds of t since the zero of the seconds
UnixNano(t) == Add(Mul(FromInt(t.sec), Second), FromInt(t.nsec))

\* t.Sub(u): a Duration (the times of the model are too close to saturate it)
TimeSub(t, u) ==
    IF Less(UnixNano(t), UnixNano(u))
    THEN Int64(TRUE, Sub(UnixNano(u), UnixNano(t)))
    ELSE Int64(FALSE, Sub(UnixNano(t), UnixNano(u)))

\* a float64: the value m * 2^e with m < 2^53, and its sign
Float64(neg, m, e) == [neg |-> neg, m |-> m, e |-> e]

\* float64(x) for an int64 x: the nearest float64, ties to even
ToFloat64(x) ==
    IF BitLen(x.mag) <= 53 THEN Float64(x.neg, x.mag, 0)
    ELSE LET e == BitLen(x.mag) - 53
             m == RoundDiv(x.mag, Pow2(e))
         IN  IF m = Pow2(53) THEN Float64(x.neg, Pow2(52), e + 1)
             ELSE Float64(x.neg, m, e)

\* x / y for float64 x and y, y # 0: the nearest float64, ties to even
DivFloat64(x, y) ==
    IF x.m = Zero THEN Float64(x.neg # y.neg, Zero, 0)
    ELSE LET s0 == BitLen(x.m) - BitLen(y.m) - 53
             num(s) == IF s < 0 THEN Shl(x.m, 0 - s) ELSE x.m
             den(s) == IF s < 0 THEN y.m ELSE Shl(y.m, s)
             s == IF BitLen(DivMod(num(s0), den(s0)).q) > 53 THEN s0 + 1 ELSE s0
             m == RoundDiv(num(s), den(s))
         IN  IF m = Pow2(53) THEN Float64(x.neg # y.neg, Pow2(52), s + 1 + x.e - y.e)
             ELSE Float64(x.neg # y.neg, m, s + x.e - y.e)

\* the integer part of the magnitude of f
Trunc(f) == IF f.e >= 0 THEN Shl(f.m, f.e) ELSE Shr(f.m, 0 - f.e)

\* the architectures of the builds
Archs == {"amd64", "arm64"}

\* uint64(f): the integer part; for a value uint64 cannot hold the result
\* depends on the implementation: amd64 converts through int64 and keeps the
\* bits, arm64 saturates
ToUint64(f, arch) ==
    IF ~f.neg \/ Trunc(f) = Zero THEN Trunc(f)
    ELSE IF arch = "amd64" THEN Sub(Pow2(64), Trunc(f))
    ELSE Zero

\* fmt.Sprintf("%.2f", f): the value rounded to hundredths, ties to even
Format2f(f) ==
    [neg |-> f.neg,
     hundredths |-> IF f.e >= 0 THEN Shl(Mul(f.m, FromInt(100)), f.e)
                    ELSE RoundDiv(Mul(f.m, FromInt(100)), Pow2(0 - f.e))]

---------------------------------------------------------------------------
(* View: the rows of a replication job. *)

\* the numbers of a madmin.JobMetric of a replication job
Replicate(start, last, objects, failed, bytes) ==
    [StartTime |-> start, LastUpdate |-> last, Objects |-> objects,
     ObjectsFailed |-> failed, BytesTransferred |-> bytes, Object |-> "obj"]

\* their zero value
ZeroReplicate ==
    [StartTime |-> Time(0, 0), LastUpdate |-> Time(0, 0), Objects |-> Zero,
     ObjectsFailed |-> Zero, BytesTransferred |-> Zero, Object |-> ""]

\* the largest count whose product with time.Second is an int64
MaxSeconds == DivMod(MaxInt64, Second).q

\* the start of the job and the times of its last update: a second before
\* the start, at the start, and from a nanosecond to an hour after it
StartTimes == {Time(1000, 0)}
LastUpdates ==
    {Time(999, 0), Time(1000, 0), Time(1000, 1), Time(1001, 0), Time(1003, 0),
     Time(1010, 0), Time(4600, 0)}

\* the byte counts: 100 MiB, 8 GiB, the two counts around MaxSeconds, 16 GiB,
\* and the largest int64
ByteCounts ==
    {Zero, One, FromInt(104857600), Pow2(33), MaxSeconds, Add(MaxSeconds, One),
     Pow2(34), Pow2(62), MaxInt64}

\* the object counts
ObjectCounts == {Zero, FromInt(1000), Add(MaxSeconds, One)}

\* the snapshots View is applied to
ReplicateInputs ==
    {Replicate(start, last, objects, Zero, bytes) :
        start \in StartTimes, last \in LastUpdates,
        objects \in ObjectCounts, bytes \in ByteCounts}

\* mutant: the rates are shown from an elapsed time of zero on
ThroughputShownFromZero(accElapsedTime) == ~accElapsedTime.neg

\* accElapsedTime > 0
ThroughputShown(accElapsedTime) == ~accElapsedTime.neg /\ accElapsedTime.mag # Zero

\* float64(int64(time.Second)*count) / float64(accElapsedTime)
PerSec(count, accElapsedTime) ==
    DivFloat64(ToFloat64(MulInt64(Second, count)), ToFloat64(accElapsedTime))

\* the lines addLine collects for a replication job; humanize.IBytes and
\* Duration.String format the number they are given, which the row carries
ReplicateRows(r, arch) ==
    << <<"JobType: ", "replicate">>,
       <<"Objects: ", r.Objects>>,
       <<"Versions: ", r.Objects>>,
       <<"FailedObjects: ", r.ObjectsFailed>> >>
    \o (IF ThroughputShown(TimeSub(r.LastUpdate, r.StartTime))
        THEN << <<"Throughput: ",
                  ToUint64(PerSec(r.BytesTransferred,
                                  TimeSub(r.LastUpdate, r.StartTime)), arch)>>,
                <<"IOPs: ",
                  Format2f(PerSec(r.Objects, TimeSub(r.LastUpdate, r.StartTime)))>> >>
        ELSE << >>)
    \o << <<"Transferred: ", r.BytesTransferred>>,
          <<"Elapsed: ", TimeSub(r.LastUpdate, r.StartTime)>>,
          <<"CurrObjName: ", r.Object>> >>

---------------------------------------------------------------------------
Init ==
    /\ globalJSON \in BOOLEAN
    /\ pc = "describe"
    /\ descr = NotDescribed
    /\ notice = FALSE
    /\ fatalMsg = ""
    /\ cancelled = FALSE
    /\ cancels = {}
    /\ sub = "idle"
    /\ ticks = 0
    /\ lastTick = NoBatchJobs
    /\ printed = <<>>
    /\ msgs = <<>>
    /\ uiState = "new"
    /\ current = ZeroJob
    /\ quitting = FALSE
    /\ spinner = 0
    /\ tickCmd = FALSE
    /\ quitCmd = FALSE
    /\ keys = 0
    /\ events = 0
    /\ feedErr = ""
    /\ replicate = ZeroReplicate
    /\ table = << >>

---------------------------------------------------------------------------
(* mainBatchStatus: the describe call. *)

\* nosuchJob := madmin.ToErrorResponse(e).Code == "XMinioAdminNoSuchJob"
NoSuchJob(res) == res.code = "XMinioAdminNoSuchJob"

\* mutant: only an ErrorResponse with a code counts as a failure
DescribeFatalOnCodeOnly(res) == res.err /\ res.code # "" /\ ~NoSuchJob(res)

\* e is still non-nil at fatalIf(probe.NewError(e), ...)
DescribeFatal(res) == res.err /\ ~NoSuchJob(res)

\* mutant: the notice is printed whatever the output mode
DescribeNoticeInEveryMode(res) == NoSuchJob(res)

\* console.Infoln is reached
DescribeNotice(res) == NoSuchJob(res) /\ ~globalJSON

Describe ==
    /\ pc = "describe"
    /\ \E res \in DescribeResults :
         /\ descr' = res
         /\ IF DescribeFatal(res)
            THEN /\ pc' = "fatal"
                 /\ fatalMsg' = "Unable to lookup job status"
                 /\ UNCHANGED notice
            ELSE /\ pc' = "spawn"
                 /\ notice' = DescribeNotice(res)
                 /\ UNCHANGED fatalMsg
    /\ UNCHANGED <<replicate, table, feedErr, events, globalJSON, cancelled, cancels, sub, ticks, lastTick, printed, msgs,
                   uiState, current, quitting, spinner, tickCmd, quitCmd, keys>>

\* ui := tea.NewProgram(...); go func() { ... client.Metrics(...) ... }()
Spawn ==
    /\ pc = "spawn"
    /\ sub' = "running"
    /\ pc' = IF globalJSON THEN "wait" ELSE "run"
    /\ UNCHANGED <<replicate, table, feedErr, events, globalJSON, descr, notice, fatalMsg, cancelled, cancels, ticks, lastTick,
                   printed, msgs, uiState, current, quitting, spinner, tickCmd,
                   quitCmd, keys>>

---------------------------------------------------------------------------
(* The delivery callback of client.Metrics. *)

\* mutant: the terminal check comes before printMsg
CallbackPrintsBeforeTerminal(metrics) ==
    globalJSON /\ Present(metrics) /\ ~Terminal(metrics)

\* structured mode: printMsg(metricsMessage{RealtimeMetrics: metrics}) is reached
CallbackPrints(metrics) == globalJSON /\ Present(metrics)

\* mutant: the callback cancels in both modes
CallbackCancelsInEveryMode(metrics) == ~Present(metrics) \/ Terminal(metrics)

\* cancel() is reached
CallbackCancels(metrics) == globalJSON /\ (~Present(metrics) \/ Terminal(metrics))

\* interactive mode: ui.Send(metrics); a program that has exited drops it
CallbackSends(metrics) == ~globalJSON /\ uiState # "exited"

\* a message of this type waits in the display's queue: the program's channel
\* is unbuffered, so its sender is blocked until the display loop takes it
Waiting(type) == \E i \in 1 .. Len(msgs) : msgs[i].type = type

FeedTick ==
    /\ Alive
    /\ sub = "running"
    /\ ~cancelled
    /\ events < MaxEvents
    /\ events' = events + 1
    /\ ~Waiting("metrics")
    /\ \E metrics \in RealtimeMetrics :
         /\ ticks' = ticks + 1
         /\ lastTick' = metrics
         /\ printed' = IF CallbackPrints(metrics) THEN Append(printed, metrics) ELSE printed
         /\ cancelled' = IF CallbackCancels(metrics) THEN Cancel(cancelled) ELSE cancelled
         /\ cancels' = IF CallbackCancels(metrics) THEN cancels \cup {"callback"} ELSE cancels
         /\ msgs' = IF CallbackSends(metrics) THEN Append(msgs, MetricsMsg(metrics)) ELSE msgs
    /\ UNCHANGED <<replicate, table, feedErr, globalJSON, descr, pc, notice, fatalMsg, sub, uiState, current, quitting,
                   spinner, tickCmd, quitCmd, keys>>

\* the errors client.Metrics returns: none, the context's, any other
FeedErrors == {"nil", "context canceled", "transport"}

\* mutant: every error of the feed is fatal
FeedFatalOnAnyError(e) == e # "nil"

\* e != nil && !errors.Is(e, context.Canceled)
FeedFatal(e) == e # "nil" /\ e # "context canceled"

\* client.Metrics returns e and the goroutine handles it: fatalIf, or the
\* goroutine ends
FeedReturn(e) ==
    /\ Alive
    /\ sub = "running"
    /\ feedErr' = e
    /\ IF FeedFatal(e)
       THEN /\ pc' = "fatal"
            /\ fatalMsg' = "Unable to get current batch status"
            /\ sub' = sub
       ELSE /\ sub' = "done"
            /\ UNCHANGED <<pc, fatalMsg>>
    /\ UNCHANGED <<replicate, table, events, globalJSON, descr, notice, cancelled, cancels, ticks, lastTick,
                   printed, msgs, uiState, current, quitting, spinner, tickCmd,
                   quitCmd, keys>>

\* client.Metrics returns context.Canceled: errors.Is(e, context.Canceled), swallowed
FeedCancelled == cancelled /\ FeedReturn("context canceled")

\* client.Metrics returns nil: the feed has ended
FeedEnd == ~cancelled /\ FeedReturn("nil")

\* client.Metrics returns another error: fatalIf
FeedFail == ~cancelled /\ FeedReturn("transport")

---------------------------------------------------------------------------
(* batchJobMetricsUI: Update and View. *)

\* mutant: every key ends the display
UpdateQuitsOnAnyKey(msg) ==
    CASE msg.type = "key" -> TRUE
      [] msg.type = "metrics" -> ~Present(msg.metrics) \/ Terminal(msg.metrics)
      [] OTHER -> FALSE

\* mutant: a terminal snapshot does not end the display
UpdateQuitsNotOnTerminal(msg) ==
    CASE msg.type = "key" -> msg.key = "ctrl+c"
      [] msg.type = "metrics" -> ~Present(msg.metrics)
      [] OTHER -> FALSE

\* mutant: a vanished job does not end the display
UpdateQuitsNotOnAbsence(msg) ==
    CASE msg.type = "key" -> msg.key = "ctrl+c"
      [] msg.type = "metrics" -> Terminal(msg.metrics)
      [] OTHER -> FALSE

\* Update returns tea.Quit
UpdateQuits(msg) ==
    CASE msg.type = "key" -> msg.key = "ctrl+c"
      [] msg.type = "metrics" -> ~Present(msg.metrics) \/ Terminal(msg.metrics)
      [] OTHER -> FALSE

\* mutant: quitting is assigned the verdict of the current message
UpdateQuittingAssigned(q, msg) == UpdateQuits(msg)

\* m.quitting after Update(msg)
UpdateQuitting(q, msg) == IF UpdateQuits(msg) THEN TRUE ELSE q

\* mutant: the terminal check comes before the assignment of current
UpdateCurrentUnlessTerminal(cur, msg) ==
    IF msg.type = "metrics" /\ Present(msg.metrics) /\ ~Terminal(msg.metrics)
    THEN msg.metrics.Jobs[jobID]
    ELSE cur

\* mutant: a tick without the job clears the stored snapshot
UpdateCurrentClearedOnAbsence(cur, msg) ==
    IF msg.type = "metrics"
    THEN IF Present(msg.metrics) THEN msg.metrics.Jobs[jobID] ELSE ZeroJob
    ELSE cur

\* mutant: the counters and flags are copied into the stored snapshot
UpdateCurrentMerged(cur, msg) ==
    IF msg.type = "metrics" /\ Present(msg.metrics)
    THEN [cur EXCEPT !.Objects = msg.metrics.Jobs[jobID].Objects,
                     !.Complete = msg.metrics.Jobs[jobID].Complete,
                     !.Failed = msg.metrics.Jobs[jobID].Failed]
    ELSE cur

\* m.current after Update(msg)
UpdateCurrent(cur, msg) ==
    IF msg.type = "metrics" /\ Present(msg.metrics)
    THEN msg.metrics.Jobs[jobID]
    ELSE cur

\* m.spinner after Update(msg): spinner.Update advances the frame and wraps
UpdateSpinner(sp, msg) ==
    IF msg.type = "tick" THEN (sp + 1) % SpinnerFrames ELSE sp

\* spinner.Update returns the command of the next tick
UpdateTicks(msg) == msg.type = "tick"

\* mutant: the header follows the flags of the snapshot alone
HeaderIgnoresQuitting(cur, q, sp) ==
    IF cur.Complete THEN <<"tick", 3>>
    ELSE IF cur.Failed THEN <<"cross", 3>>
    ELSE <<"spinner", sp>>

\* mutant: the final frame has no glyph
HeaderWithoutGlyph(cur, q, sp) == IF ~q THEN <<"spinner", sp>> ELSE <<"", 0>>

\* the first line of View
Header(cur, q, sp) ==
    IF ~q THEN <<"spinner", sp>>
    ELSE IF cur.Complete THEN <<"tick", 3>>
    ELSE IF cur.Failed THEN <<"cross", 3>>
    ELSE <<"", 0>>

\* mutant: the rows are drawn for every job type
BodyForEveryType(cur) ==
    << <<"JobType: ", cur.JobType>>,
       <<"Objects: ", cur.Objects>>,
       <<"Versions: ", cur.Objects>> >>

\* the rows of the table of View
Body(cur) ==
    IF cur.JobType = "replicate"
    THEN << <<"JobType: ", cur.JobType>>,
            <<"Objects: ", cur.Objects>>,
            <<"Versions: ", cur.Objects>> >>
    ELSE << >>

\* View: header, table, and the trailing newline once quitting
View(cur, q, sp) == [header |-> Header(cur, q, sp), body |-> Body(cur), trailer |-> q]

\* what the display shows
Frame == View(current, quitting, spinner)

\* ui.Run starts the loop; Init returns m.spinner.Tick
RunStart ==
    /\ pc = "run"
    /\ uiState = "new"
    /\ uiState' = "running"
    /\ tickCmd' = TRUE
    /\ UNCHANGED <<replicate, table, feedErr, events, globalJSON, descr, pc, notice, fatalMsg, cancelled, cancels, sub,
                   ticks, lastTick, printed, msgs, current, quitting, spinner, quitCmd,
                   keys>>

\* what the terminal's input reader hands to the loop: the interrupt key,
\* another key, or input that is no key (a message of any other type)
Inputs == {KeyMsg("ctrl+c"), KeyMsg("q"), OtherMsg}

\* the user presses a key, or the terminal sends other input
KeyPress ==
    /\ Alive
    /\ uiState = "running"
    /\ events < MaxEvents
    /\ events' = events + 1
    /\ ~Waiting("key")
    /\ ~Waiting("other")
    /\ \E m \in Inputs : msgs' = Append(msgs, m)
    /\ keys' = keys + 1
    /\ UNCHANGED <<replicate, table, feedErr, globalJSON, descr, pc, notice, fatalMsg, cancelled, cancels, sub,
                   ticks, lastTick, printed, uiState, current, quitting, spinner, tickCmd,
                   quitCmd>>

\* the pending spinner tick command delivers its spinner.TickMsg
SpinnerTick ==
    /\ Alive
    /\ uiState = "running"
    /\ tickCmd
    /\ events < MaxEvents
    /\ events' = events + 1
    /\ msgs' = Append(msgs, TickMsg)
    /\ tickCmd' = FALSE
    /\ UNCHANGED <<replicate, table, feedErr, globalJSON, descr, pc, notice, fatalMsg, cancelled, cancels, sub,
                   ticks, lastTick, printed, uiState, current, quitting, spinner, quitCmd,
                   keys>>

\* the pending tea.Quit command delivers its quit message
QuitCommand ==
    /\ Alive
    /\ uiState = "running"
    /\ quitCmd
    /\ msgs' = Append(msgs, QuitMsg)
    /\ quitCmd' = FALSE
    /\ UNCHANGED <<replicate, table, feedErr, events, globalJSON, descr, pc, notice, fatalMsg, cancelled, cancels, sub,
                   ticks, lastTick, printed, uiState, current, quitting, spinner, tickCmd,
                   keys>>

\* the loop takes the next message and calls Update with it
UpdateStep ==
    /\ Alive
    /\ uiState = "running"
    /\ msgs # << >>
    /\ Head(msgs).type # "quit"
    /\ msgs' = Tail(msgs)
    /\ quitting' = UpdateQuitting(quitting, Head(msgs))
    /\ current' = UpdateCurrent(current, Head(msgs))
    /\ spinner' = UpdateSpinner(spinner, Head(msgs))
    /\ quitCmd' = (quitCmd \/ UpdateQuits(Head(msgs)))
    /\ tickCmd' = (tickCmd \/ UpdateTicks(Head(msgs)))
    /\ UNCHANGED <<replicate, table, feedErr, events, globalJSON, descr, pc, notice, fatalMsg, cancelled, cancels, sub,
                   ticks, lastTick, printed, uiState, keys>>

\* the loop takes the quit message and ends: ui.Run returns without error
LoopExit ==
    /\ Alive
    /\ uiState = "running"
    /\ msgs # << >>
    /\ Head(msgs).type = "quit"
    /\ msgs' = Tail(msgs)
    /\ uiState' = "exited"
    /\ UNCHANGED <<replicate, table, feedErr, events, globalJSON, descr, pc, notice, fatalMsg, cancelled, cancels, sub,
                   ticks, lastTick, printed, current, quitting, spinner, tickCmd, quitCmd,
                   keys>>

---------------------------------------------------------------------------
(* mainBatchStatus: the end of the top-level flow. *)

\* mutant: no deferred cancel
NoDeferredCancel == FALSE

\* defer cancel() runs when mainBatchStatus returns
DeferredCancel == TRUE

\* ui.Run returns an error: cancel(), then fatalIf
RunError ==
    /\ pc = "run"
    /\ uiState # "exited"
    /\ cancelled' = Cancel(cancelled)
    /\ cancels' = cancels \cup {"error"}
    /\ pc' = "fatal"
    /\ fatalMsg' = "Unable to get current batch status"
    /\ UNCHANGED <<replicate, table, feedErr, events, globalJSON, descr, notice, sub, ticks, lastTick, printed, msgs, uiState,
                   current, quitting, spinner, tickCmd, quitCmd, keys>>

\* ui.Run has returned without error: return nil
RunReturn ==
    /\ pc = "run"
    /\ uiState = "exited"
    /\ pc' = "returned"
    /\ cancelled' = IF DeferredCancel THEN Cancel(cancelled) ELSE cancelled
    /\ cancels' = IF DeferredCancel THEN cancels \cup {"defer"} ELSE cancels
    /\ UNCHANGED <<replicate, table, feedErr, events, globalJSON, descr, notice, fatalMsg, sub, ticks, lastTick, printed, msgs,
                   uiState, current, quitting, spinner, tickCmd, quitCmd, keys>>

\* mutant: the wait gives up by itself
StructuredNeverBlocks == TRUE

\* structured mode: <-ctxt.Done() unblocks once cancelled
StructuredUnblocks == cancelled

\* <-ctxt.Done() has returned: return nil
WaitReturn ==
    /\ pc = "wait"
    /\ StructuredUnblocks
    /\ pc' = "returned"
    /\ cancelled' = IF DeferredCancel THEN Cancel(cancelled) ELSE cancelled
    /\ cancels' = IF DeferredCancel THEN cancels \cup {"defer"} ELSE cancels
    /\ UNCHANGED <<replicate, table, feedErr, events, globalJSON, descr, notice, fatalMsg, sub, ticks, lastTick, printed, msgs,
                   uiState, current, quitting, spinner, tickCmd, quitCmd, keys>>

\* globalContext, the parent of ctxt, is cancelled (a signal to the process)
ParentCancel ==
    /\ Alive
    /\ pc # "describe"
    /\ "parent" \notin cancels
    /\ cancelled' = Cancel(cancelled)
    /\ cancels' = cancels \cup {"parent"}
    /\ UNCHANGED <<replicate, table, feedErr, events, globalJSON, descr, pc, notice, fatalMsg, sub, ticks, lastTick, printed, msgs,
                   uiState, current, quitting, spinner, tickCmd, quitCmd, keys>>

---------------------------------------------------------------------------
Next ==
    \/ Describe
    \/ Spawn
    \/ FeedTick
    \/ FeedCancelled
    \/ FeedEnd
    \/ FeedFail
    \/ RunStart
    \/ KeyPress
    \/ SpinnerTick
    \/ QuitCommand
    \/ UpdateStep
    \/ LoopExit
    \/ RunError
    \/ RunReturn
    \/ WaitReturn
    \/ ParentCancel

Spec == Init /\ [][Next]_vars

\* the scheduler runs every goroutine and command that can take a step; the
\* feed, the user, the parent context and failures are under no obligation
Fairness ==
    /\ WF_vars(Spawn)
    /\ WF_vars(RunStart)
    /\ WF_vars(QuitCommand)
    /\ WF_vars(UpdateStep)
    /\ WF_vars(LoopExit)
    /\ WF_vars(RunReturn)
    /\ WF_vars(WaitReturn)

\* the runs in which neither the feed nor the display fails
QuietNext ==
    \/ Describe
    \/ Spawn
    \/ FeedTick
    \/ FeedCancelled
    \/ FeedEnd
    \/ RunStart
    \/ KeyPress
    \/ SpinnerTick
    \/ QuitCommand
    \/ UpdateStep
    \/ LoopExit
    \/ RunReturn
    \/ WaitReturn
    \/ ParentCancel

LiveSpec == Init /\ [][QuietNext]_vars /\ Fairness

TypeOK ==
    /\ globalJSON \in BOOLEAN
    /\ pc \in {"describe", "spawn", "run", "wait", "returned", "fatal"}
    /\ sub \in {"idle", "running", "done"}
    /\ feedErr \in {""} \cup FeedErrors
    /\ uiState \in {"new", "running", "exited"}
    /\ current \in JobMetric \cup {ZeroJob}
    /\ quitting \in BOOLEAN
    /\ spinner \in 0 .. SpinnerFrames - 1
    /\ ticks \in 0 .. MaxEvents
    /\ keys \in 0 .. MaxEvents
    /\ events \in 0 .. MaxEvents
    /\ ticks + keys <= events
    /\ lastTick \in RealtimeMetrics

---------------------------------------------------------------------------
(* View applied to the replication snapshots. *)

\* the display is running and shows a replication job
ViewInit ==
    /\ globalJSON = FALSE
    /\ pc = "run"
    /\ descr = [err |-> FALSE, code |-> ""]
    /\ notice = FALSE
    /\ fatalMsg = ""
    /\ cancelled = FALSE
    /\ cancels = {}
    /\ sub = "running"
    /\ ticks = 1
    /\ lastTick = [HasBatchJobs |-> TRUE, Jobs |-> JobsOf(Job("replicate", 1, FALSE, FALSE))]
    /\ printed = << >>
    /\ msgs = << >>
    /\ uiState = "running"
    /\ current = Job("replicate", 1, FALSE, FALSE)
    /\ quitting = FALSE
    /\ spinner = 0
    /\ tickCmd = TRUE
    /\ quitCmd = FALSE
    /\ keys = 0
    /\ events = 1
    /\ feedErr = ""
    /\ replicate \in ReplicateInputs
    /\ table = << >>

\* View collects the lines of the snapshot
Redraw ==
    /\ table = << >>
    /\ current.JobType = "replicate"
    /\ \E arch \in Archs : table' = ReplicateRows(replicate, arch)
    /\ UNCHANGED <<replicate, feedErr, events, globalJSON, descr, pc, notice, fatalMsg,
                   cancelled, cancels, sub, ticks, lastTick, printed, msgs, uiState,
                   current, quitting, spinner, tickCmd, quitCmd, keys>>

ViewNext == Redraw

ViewSpec == ViewInit /\ [][ViewNext]_vars

---------------------------------------------------------------------------
(* Vocabulary of the properties. *)

\* the tick asks the monitor to stop: feed absence or a terminal snapshot
Stopping(metrics) == ~Present(metrics) \/ Terminal(metrics)

\* this step is an invocation of the delivery callback
CallbackStep == ticks' = ticks + 1

\* this step is the display loop taking a message of the given type
Took(type) == msgs # << >> /\ Head(msgs).type = type /\ msgs' = Tail(msgs)

\* the last record printed
LastPrinted == printed[Len(printed)]

---------------------------------------------------------------------------
(* C1 *)

\* C1: in structured mode the records printed are exactly the ticks delivered
\* in which the job is present, one per tick and in delivery order (the k-th
\* record is the k-th tick), up to and including the first tick whose snapshot
\* is complete or failed; no record but the last is terminal, and once a
\* terminal tick has been printed the feed is cancelled, so nothing follows it.
C1_OneRecordPerTick ==
    globalJSON /\ ticks > 0 =>
        /\ \A i \in 1 .. Len(printed) : Present(printed[i])
        /\ \A i \in 1 .. Len(printed) - 1 : ~Terminal(printed[i])
        /\ IF Present(lastTick)
           THEN Len(printed) = ticks /\ printed[ticks] = lastTick
           ELSE Len(printed) = ticks - 1
        /\ Terminal(lastTick) => cancelled

\* structured mode has printed two records, the second one terminal, and returned
C1_Witness ==
    /\ globalJSON
    /\ pc = "returned"
    /\ ticks = 2
    /\ Len(printed) = 2
    /\ ~Terminal(printed[1])
    /\ Terminal(printed[2])

---------------------------------------------------------------------------
(* C2 *)

\* the glyph of the header for a terminal snapshot
TerminalGlyph(job) == IF job.Complete THEN <<"tick", 3>> ELSE <<"cross", 3>>

\* structured mode: whenever the callback has received a terminal tick, the
\* last record printed is that tick, also in the state in which the callback's
\* cancel has taken effect and in the state in which the monitor has returned
C2_StructuredEmitsTerminal ==
    globalJSON /\ ticks > 0 /\ Terminal(lastTick) =>
        /\ printed # << >>
        /\ LastPrinted = lastTick
        /\ "callback" \in cancels

\* interactive mode: the step in which Update takes a terminal snapshot sets
\* quitting, stores exactly that snapshot in current, leaves the loop running
\* (the quit command is only now pending), and the frame drawn after it
\* carries the glyph of that snapshot
C2_InteractiveStoresTerminal ==
    Took("metrics") /\ Terminal(Head(msgs).metrics) =>
        /\ quitting'
        /\ current' = Head(msgs).metrics.Jobs[jobID]
        /\ Frame'.header = TerminalGlyph(Head(msgs).metrics.Jobs[jobID])
        /\ quitCmd'
        /\ uiState' = "running"

\* C2: in both modes the terminal snapshot reaches the renderer before
\* teardown: structured mode has printed its record when cancellation is
\* tripped, and in interactive mode current is the terminal snapshot, and the
\* frame shows its glyph, at the moment quitting is set.
C2_TerminalReachesRenderer ==
    /\ [](C2_StructuredEmitsTerminal)
    /\ [][C2_InteractiveStoresTerminal]_vars

\* interactive mode: the display quit on a terminal snapshot, which it shows,
\* and the monitor has returned
C2_Witness ==
    /\ ~globalJSON
    /\ pc = "returned"
    /\ keys = 0
    /\ quitting
    /\ Terminal(lastTick)
    /\ current = lastTick.Jobs[jobID]
    /\ Frame.header = TerminalGlyph(current)

---------------------------------------------------------------------------
(* C3 *)

\* C3: quitting is monotonic: no step of the monitor, whatever message the
\* display takes, sets quitting back to false once it is true.
C3_QuittingMonotonic == [][quitting => quitting']_vars

\* the interrupt and the only tick, a running snapshot, were taken, and the
\* loop has ended: quitting is still true
C3_Witness ==
    /\ ~globalJSON
    /\ quitting
    /\ keys = 1
    /\ ticks = 1
    /\ uiState = "exited"
    /\ Present(lastTick)
    /\ ~Terminal(lastTick)
    /\ current = lastTick.Jobs[jobID]

---------------------------------------------------------------------------
(* C4 *)

\* C4: once quitting is true, a step in which the display takes a snapshot
\* message or an animation-tick message leaves the frame (the output of View)
\* as it was.
C4_FrozenOnceQuitting ==
    [][quitting /\ (Took("metrics") \/ Took("tick")) => Frame' = Frame]_vars

---------------------------------------------------------------------------
(* C5 *)

\* a tick that signals feed absence waits in the display's queue
AbsenceQueued ==
    \E i \in 1 .. Len(msgs) : msgs[i].type = "metrics" /\ ~Present(msgs[i].metrics)

\* the callback (structured mode) or the display (interactive mode) has been
\* handed a tick that signals feed absence
AbsenceSeen ==
    \/ globalJSON /\ ticks > 0 /\ ~Present(lastTick)
    \/ ~globalJSON /\ AbsenceQueued

\* structured mode: the callback that receives the absent tick trips
\* cancellation and no fatal error follows
C5_StructuredAbsence ==
    globalJSON /\ ticks > 0 /\ ~Present(lastTick) =>
        /\ cancelled
        /\ "callback" \in cancels
        /\ pc # "fatal"
        /\ fatalMsg = ""

\* interactive mode: the step in which Update takes the absent tick sets
\* quitting, asks the loop to quit and raises no fatal error
C5_InteractiveAbsence ==
    Took("metrics") /\ ~Present(Head(msgs).metrics) =>
        /\ quitting'
        /\ quitCmd'
        /\ pc' = pc
        /\ fatalMsg' = fatalMsg

\* C5: a tick without batch-jobs aggregation, or whose job mapping lacks the
\* target id, ends both modes without error: structured mode trips
\* cancellation, interactive mode sets quitting and the loop exits, no fatal
\* error is raised, and the monitor returns normally.
C5_AbsenceTerminatesCleanly ==
    /\ [](C5_StructuredAbsence)
    /\ [][C5_InteractiveAbsence]_vars
    /\ (AbsenceSeen ~> (pc = "returned" /\ fatalMsg = ""))

\* interactive mode returned after a tick whose mapping lacks the job, the
\* only event of the run
C5_Witness ==
    /\ ~globalJSON
    /\ pc = "returned"
    /\ fatalMsg = ""
    /\ ticks = 1
    /\ lastTick.HasBatchJobs
    /\ ~Present(lastTick)
    /\ keys = 0
    /\ quitting
    /\ uiState = "exited"

---------------------------------------------------------------------------
(* C6 *)

\* the feed has delivered a tick with a terminal snapshot of the job
TerminalDelivered == ticks > 0 /\ Terminal(lastTick)

\* C6: in both modes, once the feed has delivered a tick whose snapshot is
\* complete or failed, the monitor eventually returns, under fair scheduling
\* of the top-level flow and the display and with no obligation on the user.
C6_TerminalTickReturns == TerminalDelivered ~> (pc = "returned")

\* structured mode returned after a terminal tick, with no key pressed and
\* the parent context never cancelled
C6_Witness ==
    /\ globalJSON
    /\ pc = "returned"
    /\ Terminal(lastTick)
    /\ keys = 0
    /\ cancels = {"callback", "defer"}

---------------------------------------------------------------------------
(* C7 *)

\* C7 as stated: in every mode the invocation of the callback that receives a
\* stopping tick (no aggregation, job absent, or terminal) trips cancellation
\* before it returns.
C7_CallbackCancelsInEveryMode ==
    [][CallbackStep /\ Stopping(lastTick') => cancelled']_vars

\* structured mode: the invocation with a stopping tick trips cancellation,
\* any other invocation does not
C7_StructuredCallback ==
    CallbackStep /\ globalJSON =>
        /\ cancelled' = Stopping(lastTick')
        /\ Stopping(lastTick') => "callback" \in cancels'

\* interactive mode: the invocation forwards the tick, whatever it is, to the
\* display's queue (unless the display has exited) and neither trips
\* cancellation nor prints
C7_InteractiveCallback ==
    CallbackStep /\ ~globalJSON =>
        /\ cancelled' = cancelled
        /\ cancels' = cancels
        /\ printed' = printed
        /\ uiState # "exited" => msgs' = Append(msgs, MetricsMsg(lastTick'))

\* structured mode: after a stopping tick no later tick is delivered
C7_StructuredNoLaterTick ==
    globalJSON /\ ticks > 0 /\ Stopping(lastTick) => ticks' = ticks /\ printed' = printed

\* C7 amended: in structured mode the callback applies the decision procedure
\* on every invocation and trips cancellation on a stopping tick, so that no
\* later tick is routed; in interactive mode the callback only forwards the
\* tick to the display and never trips cancellation.
C7_CallbackDecidesInStructuredMode ==
    /\ [][C7_StructuredCallback]_vars
    /\ [][C7_InteractiveCallback]_vars
    /\ [][C7_StructuredNoLaterTick]_vars

\* interactive mode: the display has quit on a terminal tick, the feed is not
\* cancelled and a later tick has been forwarded to the display
C7_Witness ==
    /\ ~globalJSON
    /\ ~cancelled
    /\ quitting
    /\ (current.Complete \/ current.Failed)
    /\ ticks = 2
    /\ Waiting("metrics")

---------------------------------------------------------------------------
(* C8 *)

\* a call of cancel() on a signal that is already tripped leaves it tripped,
\* and the deferred one lets the monitor return
C8_SecondCancel ==
    cancelled /\ cancels' # cancels =>
        /\ cancelled'
        /\ cancels \subseteq cancels'
        /\ "defer" \in cancels' => pc' = "returned" /\ fatalMsg' = ""

\* C8: the cancellation signal is monotonic and cancelling is idempotent: once
\* tripped it stays tripped in every interleaving, every call of cancel leaves
\* it tripped, and a second cancel from another side raises no error.
C8_CancelMonotonicIdempotent ==
    /\ [][cancelled => cancelled']_vars
    /\ [](cancels # {} => cancelled)
    /\ [][C8_SecondCancel]_vars

\* the callback, the parent context and the deferred call have all cancelled
C8_Witness ==
    /\ cancelled
    /\ cancels = {"callback", "parent", "defer"}
    /\ pc = "returned"

---------------------------------------------------------------------------
(* C9 *)

\* C9: whenever the monitor has returned, cancellation has been tripped, the
\* deferred cancel being one of the calls; in interactive mode, unless the
\* parent context was cancelled, it is tripped only by the caller, after the
\* display loop has exited.
C9_CancelledOnReturn ==
    /\ pc = "returned" => cancelled /\ "defer" \in cancels
    /\ ~globalJSON /\ cancelled /\ "parent" \notin cancels /\ pc # "fatal" =>
          pc = "returned" /\ uiState = "exited"

\* interactive mode returned after an interrupt while the subscriber was
\* still running: only the deferred cancel stops it
C9_Witness ==
    /\ ~globalJSON
    /\ pc = "returned"
    /\ sub = "running"
    /\ cancels = {"defer"}
    /\ keys = 1
    /\ ticks = 0

---------------------------------------------------------------------------
(* C10 *)

\* C10: if describe fails with an error other than the job-not-found code,
\* the monitor is aborted by the fatalIf of the lookup before anything else
\* happens: the subscriber is not started, no tick, record or notice exists
\* and the display loop is not started.
C10_DescribeFailureIsFatal ==
    descr.err /\ descr.code # "XMinioAdminNoSuchJob" =>
        /\ pc = "fatal"
        /\ fatalMsg = "Unable to lookup job status"
        /\ sub = "idle"
        /\ ticks = 0
        /\ printed = << >>
        /\ msgs = << >>
        /\ uiState = "new"
        /\ ~notice
        /\ ~cancelled

\* describe failed with an error that is no ErrorResponse
C10_Witness ==
    /\ pc = "fatal"
    /\ descr.err
    /\ descr.code = ""

---------------------------------------------------------------------------
(* C11 *)

\* this step is the return of the describe call
DescribeStep == pc = "describe" /\ pc' # "describe"

\* the describe call failed with the job-not-found code
DescribedNoSuchJob == descr.err /\ descr.code = "XMinioAdminNoSuchJob"

\* the step in which describe returns job-not-found, like the one in which
\* it succeeds, leads to the start of the subscriber and raises nothing; the
\* only difference between the two is the notice
C11_DescribeStep ==
    DescribeStep /\ (~descr'.err \/ descr'.code = "XMinioAdminNoSuchJob") =>
        /\ pc' = "spawn"
        /\ fatalMsg' = ""
        /\ notice' = (descr'.err /\ ~globalJSON)
        /\ UNCHANGED <<cancelled, cancels, sub, ticks, printed, msgs, uiState,
                       current, quitting>>

\* C11: a describe that fails with the job-not-found code is not fatal: the
\* monitor goes on to open the subscription as after a successful describe,
\* and the notice has been printed if and only if the describe failed that
\* way and the mode is interactive.
C11_NoSuchJobIsNotFatal ==
    /\ [][C11_DescribeStep]_vars
    /\ [](DescribedNoSuchJob => fatalMsg # "Unable to lookup job status")
    /\ [](notice <=> (DescribedNoSuchJob /\ ~globalJSON))

\* structured mode: describe found no such job, no notice was printed and
\* the subscription delivers ticks
C11_Witness ==
    /\ globalJSON
    /\ DescribedNoSuchJob
    /\ ~notice
    /\ sub = "running"
    /\ ticks = 1
    /\ printed # << >>

---------------------------------------------------------------------------
(* C12 *)

\* the tick carries a snapshot of the job with complete set
CompleteTick(metrics) == Present(metrics) /\ metrics.Jobs[jobID].Complete

\* describe found no such job and the one tick delivered so far, the first
\* of the feed, reports the job complete
FinishedBeforeStart ==
    /\ DescribedNoSuchJob
    /\ ticks = 1
    /\ CompleteTick(lastTick)

\* structured mode: that tick is the one record printed, and the callback
\* has cancelled the feed, so no second tick follows
C12_StructuredRecord ==
    globalJSON /\ FinishedBeforeStart =>
        /\ printed = <<lastTick>>
        /\ cancelled
        /\ ~notice
        /\ pc # "fatal"

\* interactive mode: the step in which the display takes the complete tick
\* draws the final frame with that snapshot: success glyph, the rows of the
\* snapshot, the closing newline; and it asks the loop to stop
C12_InteractiveFrame ==
    DescribedNoSuchJob /\ Took("metrics") /\ CompleteTick(Head(msgs).metrics) =>
        /\ notice
        /\ quitCmd'
        /\ Frame' = [header  |-> <<"tick", 3>>,
                     body    |-> Body(Head(msgs).metrics.Jobs[jobID]),
                     trailer |-> TRUE]

\* once that final frame is drawn, only a later tick with another snapshot
\* of the job redraws it: no animation tick, key, absence tick or repetition
\* of the snapshot does
C12_FrameStays ==
    /\ quitting
    /\ current.Complete
    /\ ~(/\ Took("metrics")
         /\ Present(Head(msgs).metrics)
         /\ Head(msgs).metrics.Jobs[jobID] # current)
    => Frame' = Frame

\* interactive mode, no key pressed: when the loop has stopped after that
\* single tick, what is on the display is the completed snapshot
C12_InteractiveFinal ==
    ~globalJSON /\ FinishedBeforeStart /\ keys = 0 /\ uiState = "exited" =>
        /\ quitting
        /\ current = lastTick.Jobs[jobID]
        /\ Frame.header = <<"tick", 3>>

\* C12: when describe reports no such job and the first tick of the feed
\* carries the job with complete set, the monitor renders that snapshot (one
\* record in structured mode, the final frame in interactive mode) and then
\* returns normally, with no fatal error.
C12_FinishedJobIsRendered ==
    /\ []C12_StructuredRecord
    /\ [][C12_InteractiveFrame]_vars
    /\ [][C12_FrameStays]_vars
    /\ []C12_InteractiveFinal
    /\ (FinishedBeforeStart ~> (pc = "returned" /\ fatalMsg = ""))

\* interactive mode: not found by describe, notice printed, one complete tick
\* drawn with the success glyph, monitor returned
C12_Witness ==
    /\ ~globalJSON
    /\ FinishedBeforeStart
    /\ notice
    /\ pc = "returned"
    /\ current = lastTick.Jobs[jobID]
    /\ Frame.header = <<"tick", 3>>
    /\ Frame.trailer

---------------------------------------------------------------------------
(* C13 *)

\* this step is the return of client.Metrics
FeedReturnStep == feedErr = "" /\ feedErr' # ""

\* what follows the return of the feed depends on the error alone, the same
\* in both modes: a cancellation (like no error) ends the goroutine and leaves
\* the monitor as it is, any other error ends the process
C13_ReturnStep ==
    FeedReturnStep =>
        IF feedErr' = "context canceled" \/ feedErr' = "nil"
        THEN /\ sub' = "done"
             /\ UNCHANGED <<pc, fatalMsg, cancelled, cancels, printed, msgs, uiState>>
        ELSE /\ pc' = "fatal"
             /\ fatalMsg' = "Unable to get current batch status"

\* the subscription is opened once: after its return there is no second
\* return and no further tick
C13_NotRetried ==
    feedErr # "" => UNCHANGED <<feedErr, sub, ticks, lastTick>>

\* C13: when the feed subscription returns an error, a cancellation is
\* swallowed (the monitor is not made fatal by it and can return normally),
\* any other error is fatal in both modes, and the subscription is never
\* opened again.
C13_FeedErrorHandling ==
    /\ [][C13_ReturnStep]_vars
    /\ [][C13_NotRetried]_vars
    /\ [](feedErr = "transport" => pc = "fatal")
    /\ [](feedErr = "context canceled" =>
             /\ cancelled
             /\ pc = "fatal" => "error" \in cancels)
    /\ [](pc = "returned" => feedErr # "transport")

\* structured mode: the callback cancelled, the feed returned the
\* cancellation, and the monitor returned without a fatal error
C13_Witness ==
    /\ globalJSON
    /\ feedErr = "context canceled"
    /\ cancels = {"callback", "defer"}
    /\ pc = "returned"
    /\ fatalMsg = ""

---------------------------------------------------------------------------
(* C16 *)

\* as long as no tick has been delivered, no key pressed and the parent
\* context not cancelled, the monitor has not returned
C16_BlockedWithoutEvent ==
    ticks = 0 /\ keys = 0 /\ "parent" \notin cancels => pc # "returned"

\* structured mode: a return follows a stopping tick seen by the callback
\* (nothing is delivered after it, so it is the last one) or a cancellation
\* of the parent context
C16_StructuredCause ==
    globalJSON /\ pc = "returned" =>
        \/ "callback" \in cancels /\ ticks > 0 /\ Stopping(lastTick)
        \/ "parent" \in cancels

\* interactive mode: a return follows the end of the display loop, which
\* follows the quit command, which is issued with quitting set
C16_InteractiveCause ==
    /\ ~globalJSON /\ pc = "returned" => uiState = "exited"
    /\ quitCmd \/ Waiting("quit") \/ uiState = "exited" => quitting

\* quitting is set only by the interrupt key and by a stopping tick
C16_QuittingCause ==
    ~quitting /\ quitting' =>
        \/ Took("key") /\ Head(msgs).key = "ctrl+c"
        \/ Took("metrics") /\ Stopping(Head(msgs).metrics)

\* C16: the monitor has no timeout of its own: whenever it has returned
\* normally, a terminal tick, an absence tick, an interrupt or an external
\* cancellation came before; without any tick, key or external cancellation
\* it stays blocked.
C16_NoTimeout ==
    /\ []C16_BlockedWithoutEvent
    /\ []C16_StructuredCause
    /\ []C16_InteractiveCause
    /\ [][C16_QuittingCause]_vars

\* interactive mode: returned after an interrupt, with no tick delivered and
\* no external cancellation
C16_Witness ==
    /\ ~globalJSON
    /\ pc = "returned"
    /\ ticks = 0
    /\ keys = 1
    /\ cancels = {"defer"}
    /\ quitting

---------------------------------------------------------------------------
(* C17 *)

\* current is the zero value or one whole snapshot of the feed
C17_WholeSnapshot == current = ZeroJob \/ current \in JobMetric

\* the display takes a tick in which the job is present: current becomes
\* that snapshot; every other step leaves current as it is
C17_ReplacedByPresentTick ==
    IF Took("metrics") /\ Present(Head(msgs).metrics)
    THEN current' = Head(msgs).metrics.Jobs[jobID]
    ELSE current' = current

\* ticks reach the display in the order of delivery: the one tick that can
\* wait in the queue is the latest one delivered, and when none waits and
\* the loop is running the latest present tick is what current holds
C17_DeliveryOrder ==
    ~globalJSON /\ ticks > 0 =>
        /\ \A i \in 1 .. Len(msgs) :
               msgs[i].type = "metrics" => msgs[i].metrics = lastTick
        /\ (~Waiting("metrics") /\ uiState = "running" /\ Present(lastTick)) =>
               current = lastTick.Jobs[jobID]

\* structured mode never touches current
C17_StructuredUntouched == globalJSON => current = ZeroJob

\* C17: in interactive mode current is always the zero value or exactly the
\* snapshot of the most recently processed tick in which the job was present:
\* replaced as a whole, never merged, in delivery order, and kept between ticks.
C17_CurrentIsLatestSnapshot ==
    /\ []C17_WholeSnapshot
    /\ [][C17_ReplacedByPresentTick]_vars
    /\ []C17_DeliveryOrder
    /\ []C17_StructuredUntouched

\* a snapshot was replaced by the key-rotation one of a later tick, an
\* animation tick was taken in between or after, and the loop is still running
C17_Witness ==
    /\ ~globalJSON
    /\ ticks = 2
    /\ uiState = "running"
    /\ ~quitting
    /\ ~Waiting("metrics")
    /\ current = Job("keyrotate", 1, FALSE, FALSE)
    /\ spinner = 1

---------------------------------------------------------------------------
(* C18 *)

\* the snapshot on display reports the job neither complete nor failed
JobRunning == ~current.Complete /\ ~current.Failed

\* C18 as stated: in every reachable state of the display the header follows
\* from the current snapshot alone: the spinner glyph while the job is
\* neither complete nor failed, the success glyph if it is complete, the
\* failure glyph if it has failed.
C18_HeaderFromSnapshot ==
    Frame.header = IF current.Complete THEN <<"tick", 3>>
                   ELSE IF current.Failed THEN <<"cross", 3>>
                   ELSE <<"spinner", spinner>>

\* C18, amended: the header is the success glyph if the current snapshot is
\* complete and the failure glyph if it has failed; if it is neither, the
\* header is the spinner glyph while quitting is false and empty once
\* quitting is true (after an interrupt or an absence tick). The spinner is
\* never shown over a complete or failed snapshot.
C18_HeaderFromSnapshotAndQuitting ==
    /\ current.Complete => Frame.header = <<"tick", 3>>
    /\ current.Failed /\ ~current.Complete => Frame.header = <<"cross", 3>>
    /\ JobRunning /\ ~quitting => Frame.header = <<"spinner", spinner>>
    /\ JobRunning /\ quitting => Frame.header = <<"", 0>>
    /\ Frame.header[1] = "spinner" => JobRunning

\* the display was interrupted while it showed a running job: the final
\* frame has an empty header over the rows of the snapshot
C18_Witness ==
    /\ ~globalJSON
    /\ quitting
    /\ keys = 1
    /\ ticks = 1
    /\ current = Job("replicate", 1, FALSE, FALSE)
    /\ Frame.header = <<"", 0>>
    /\ Frame.body # << >>

---------------------------------------------------------------------------
(* C19 *)

\* the tick carries the job with a type View has no rows for
UnknownTypeTick(metrics) ==
    Present(metrics) /\ metrics.Jobs[jobID].JobType # "replicate"

\* the display takes a tick whose snapshot has an unknown job type: the
\* snapshot becomes current, its complete and failed flags set quitting and
\* ask for the quit as for any other snapshot, nothing fatal happens, and the
\* redraw has the header of the snapshot and no rows
C19_UnknownTypeStep ==
    Took("metrics") /\ UnknownTypeTick(Head(msgs).metrics) =>
        /\ current' = Head(msgs).metrics.Jobs[jobID]
        /\ quitting' = (quitting \/ Terminal(Head(msgs).metrics))
        /\ Terminal(Head(msgs).metrics) => quitCmd'
        /\ UNCHANGED <<pc, fatalMsg, uiState, cancelled>>
        /\ Frame'.body = << >>
        /\ Frame'.header = Header(current', quitting', spinner)

\* C19: a snapshot with an unknown job type is not an error: it is processed
\* like any other snapshot, and while it is current the display shows the
\* header alone, with no rows.
C19_UnknownTypeHeaderOnly ==
    /\ [][C19_UnknownTypeStep]_vars
    /\ [](current.JobType # "replicate" => Frame.body = << >>)
    /\ [](current.JobType = "keyrotate" /\ current.Failed =>
             quitting /\ Frame.header = <<"cross", 3>>)

\* a failed key-rotation job was drawn with the failure glyph and no rows,
\* and the monitor returned normally
C19_Witness ==
    /\ ~globalJSON
    /\ current = Job("keyrotate", 1, FALSE, TRUE)
    /\ Frame.header = <<"cross", 3>>
    /\ Frame.body = << >>
    /\ pc = "returned"
    /\ fatalMsg = ""

---------------------------------------------------------------------------
(* C20 *)

\* the display takes a message that is neither the interrupt key, nor a
\* tick of the feed, nor the quit message: an animation tick, another key,
\* or a message of a type Update has no case for
TookPassive ==
    \/ Took("tick")
    \/ Took("key") /\ Head(msgs).key # "ctrl+c"
    \/ Took("other")

\* such a message changes neither quitting nor current, asks for no quit
\* and leaves the loop running
C20_PassiveStep ==
    TookPassive =>
        /\ UNCHANGED <<quitting, current, quitCmd, uiState, pc, cancelled>>
        /\ uiState' = "running"

\* the animation tick advances the spinner, and nothing else changes it
C20_SpinnerStep ==
    IF Took("tick")
    THEN spinner' = (spinner + 1) % SpinnerFrames /\ spinner' # spinner
    ELSE spinner' = spinner

\* C20: an animation tick, a key other than the interrupt and a message of
\* an unrecognised type leave quitting and current unchanged and never end
\* the display loop; the spinner phase is changed by the animation tick only.
C20_PassiveMessages ==
    /\ [][C20_PassiveStep]_vars
    /\ [][C20_SpinnerStep]_vars

\* over a running snapshot the display has taken three passive messages, one
\* of them an animation tick, and is still running with nothing queued
C20_Witness ==
    /\ ~globalJSON
    /\ uiState = "running"
    /\ ~quitting
    /\ ~quitCmd
    /\ ticks = 1
    /\ current = Job("replicate", 1, FALSE, FALSE)
    /\ keys = 2
    /\ spinner = 1
    /\ msgs = << >>

---------------------------------------------------------------------------
(* C14 *)

\* View has collected the lines of the snapshot
Drawn == table # << >>

\* the table has a line with this prefix
HasRow(prefix) == \E i \in 1 .. Len(table) : table[i][1] = prefix

\* the value of the line with this prefix
RowOf(prefix) == table[CHOOSE i \in 1 .. Len(table) : table[i][1] = prefix][2]

\* the last update of the snapshot is later than its start
ElapsedPositive == Less(UnixNano(replicate.StartTime), UnixNano(replicate.LastUpdate))

\* the nanoseconds between start and last update, for a positive elapsed time
ElapsedNanos == Sub(UnixNano(replicate.LastUpdate), UnixNano(replicate.StartTime))

\* C14: for a replication snapshot the throughput lines (bytes per second
\* and objects per second) are drawn if and only if the elapsed time, last
\* update minus start, is strictly positive, so that nothing is divided by
\* zero; 104857600 bytes in ten seconds are drawn as exactly 10485760 bytes
\* per second.
C14_ThroughputGuard ==
    Drawn =>
        /\ HasRow("Throughput: ") <=> ElapsedPositive
        /\ HasRow("IOPs: ") <=> ElapsedPositive
        /\ Len(table) = IF ElapsedPositive THEN 9 ELSE 7
        /\ HasRow("Transferred: ") /\ HasRow("Elapsed: ")
        /\ (/\ replicate.BytesTransferred = FromInt(104857600)
            /\ ElapsedPositive
            /\ ElapsedNanos = Mul(FromInt(10), Second))
           => RowOf("Throughput: ") = FromInt(10485760)

\* 100 MiB in ten seconds, drawn with 10 MiB per second
C14_Witness ==
    /\ Drawn
    /\ replicate.BytesTransferred = FromInt(104857600)
    /\ replicate.StartTime = Time(1000, 0)
    /\ replicate.LastUpdate = Time(1010, 0)
    /\ HasRow("Throughput: ")
    /\ RowOf("Throughput: ") = FromInt(10485760)

---------------------------------------------------------------------------
(* C15 *)

\* the product of the count with time.Second fits an int64
FitsInt64(count) == ~Less(MaxInt64, Mul(Second, count))

\* C15: for every replication snapshot with a positive elapsed time and
\* non-negative 64-bit counts, the product of each count with the
\* nanoseconds of a second does not wrap around, the throughput drawn is
\* the bytes transferred divided by the elapsed seconds, and the object
\* rate drawn is the objects divided by the elapsed seconds.
C15_ExactRates ==
    Drawn /\ ElapsedPositive =>
        /\ FitsInt64(replicate.BytesTransferred)
        /\ FitsInt64(replicate.Objects)
        /\ RowOf("Throughput: ")
             = DivMod(Mul(Second, replicate.BytesTransferred), ElapsedNanos).q
        /\ RowOf("IOPs: ")
             = [neg |-> FALSE,
                hundredths |-> RoundDiv(Mul(Mul(Second, replicate.Objects), FromInt(100)),
                                        ElapsedNanos)]

---------------------------------------------------------------------------
(* C21 *)

\* the callback is invoked with a tick that has no batch-job aggregation or
\* lacks the job: in neither mode is a record printed or the display's state
\* touched by the callback
C21_CallbackOnAbsence ==
    CallbackStep /\ ~Present(lastTick') =>
        UNCHANGED <<printed, current, quitting, spinner, table>>

\* the display takes such a tick: current, the spinner and the rows drawn
\* from current stay as they were, quitting is set, nothing is printed
C21_UpdateOnAbsence ==
    Took("metrics") /\ ~Present(Head(msgs).metrics) =>
        /\ UNCHANGED <<current, spinner, printed>>
        /\ quitting'
        /\ Frame'.body = Frame.body

\* C21: a tick that signals feed absence has no effect on the output state:
\* in structured mode no record is printed for it, and in interactive mode
\* the current snapshot stays as it was before the tick; only quitting changes.
C21_AbsenceLeavesOutput ==
    /\ [][C21_CallbackOnAbsence]_vars
    /\ [][C21_UpdateOnAbsence]_vars
    /\ [](globalJSON /\ ticks > 0 /\ ~Present(lastTick) => Len(printed) = ticks - 1)

\* interactive mode: a running replication snapshot was drawn, then a tick
\* without the job was taken: the snapshot is still current, quitting is set
C21_Witness ==
    /\ ~globalJSON
    /\ ticks = 2
    /\ keys = 0
    /\ ~Present(lastTick)
    /\ ~Waiting("metrics")
    /\ quitting
    /\ current = Job("replicate", 1, FALSE, FALSE)
    /\ Frame.body # << >>

====
